---- MODULE Spec2Model ----
(***************************************************************************)
(* Model of the kline acquisition-merge-validate pipeline:                  *)
(*   - the page loops of PriceFetcher.fetchAllData and                      *)
(*     OKXExchange.fetchKlines (retry, failover, failure ceiling);          *)
(*   - mergeExchangeData, validateData, calculateAverageVolume;             *)
(*   - mergeWithExistingData over the persisted validated dataset.          *)
(* Numbers are exact non-negative integers; the two JavaScript values that  *)
(* are not numbers but occur in numeric fields, NaN and undefined, are the  *)
(* negative sentinels NaN and Undefined, and every arithmetic operator      *)
(* below propagates them the way JavaScript does.                           *)
(***************************************************************************)
EXTENDS Integers, Sequences, FiniteSets, TLC

VARIABLES
    results,      \* main: the per-exchange fetch results handed to mergeExchangeData
    mergedMap,    \* mergeExchangeData: the Map, in insertion order
    resultIndex,  \* mergeExchangeData: position of results.forEach
    dayIndex,     \* mergeExchangeData: position of result.data.forEach
    mergedData,   \* main: the value returned by mergeExchangeData
    validateIndex,  \* validateData: index of mergedData.forEach, 1-based
    validation,   \* validateData: validationResults; main: the value returned
    stage         \* main: position of the pipeline run

VARIABLES
    validatedFile,  \* data/btc_price_validated.json: whether it exists, its parsed content
    newData,        \* mergeWithExistingData: the argument, validation.valid
    runs            \* per increment run, the file mergeWithExistingData read and the value it returned

VARIABLES
    client,            \* which client runs the page loop
    fetchPc,           \* position of the call: "request", "returned" or "thrown"
    allData,           \* allData: open times of the accumulated wire records
    currentStartTime,  \* the cursor
    failureCount,      \* consecutive failures of the page loop
    attempt,           \* makeRequest: the loop counter of the request in progress
    endpointIndex,     \* currentEndpointIndex / currentUrlIndex
    proxyIndex,        \* OKXExchange.currentProxyIndex
    startTime,         \* the startTime argument of the call
    lastCandle,        \* upstream: the last day it holds a candle for
    switchCalls,       \* switchEndpoint calls so far, modulo the length of the URL list
    wireData,          \* formatData: the argument, the wire tuples of the response
    klines,            \* formatData: the value returned
    retry              \* what the client did after the last failed attempt: rotation and sleep

VARIABLES
    mode,             \* main: argv.mode
    runStartTime,     \* main: startTime, as a calendar day
    fetched,          \* main: per exchange, what its fetchExchangeData promise settled to
    rawFiles,         \* the exchanges whose raw series file this run wrote
    analyzeIndex,     \* analyzeData: index of mergedData.forEach, 1-based
    analysis,         \* analyzeData: analysis; main: the value returned
    anomaliesFile,    \* data/btc_price_anomalies.json
    analysisFile,     \* data/btc_price_analysis.json
    persistedBefore,  \* the three persisted documents as the run found them
    exitCode          \* the status the process ends with: 0 unless process.exit(1) ran

VARIABLES
    inFlight,         \* Scheduler: the child processes spawned and not yet closed
    spawned,          \* Scheduler: the number of spawnProcess calls so far
    writes            \* the runs that saved the validated dataset, in the order of their saves

pipeVars == <<results, mergedMap, resultIndex, dayIndex, mergedData,
              validateIndex, validation, stage>>
fileVars == <<validatedFile, newData, runs>>
fetchVars == <<client, fetchPc, allData, currentStartTime, failureCount, attempt,
               endpointIndex, proxyIndex, startTime, lastCandle, switchCalls,
               wireData, klines, retry>>
formatVars == <<wireData, klines>>
mainVars == <<mode, runStartTime, fetched, rawFiles, analyzeIndex, analysis,
              anomaliesFile, analysisFile, persistedBefore, exitCode>>
schedVars == <<inFlight, spawned, writes>>
vars == <<pipeVars, fileVars, fetchVars, mainVars, schedVars>>

-----------------------------------------------------------------------------
(* JavaScript values in numeric fields *)

\* parseFloat of an unparseable string
NaN == -1
\* a field that is absent from the record
Undefined == -2

\* what JSON.parse reads where JSON.stringify wrote a NaN
Null == -3

\* the global isNaN(x): true of NaN and of undefined (Number(undefined) is NaN),
\* false of null (Number(null) is 0)
isNaN(x) == x \in {NaN, Undefined}

\* a + b of two field values
Plus(a, b) == IF isNaN(a) \/ isNaN(b) THEN NaN ELSE a + b

\* Math.max(a, b) and Math.min(a, b)
MathMax(a, b) == IF isNaN(a) \/ isNaN(b) THEN NaN ELSE IF a >= b THEN a ELSE b
MathMin(a, b) == IF isNaN(a) \/ isNaN(b) THEN NaN ELSE IF a <= b THEN a ELSE b

\* seconds in a day
DaySeconds == 86400
\* new Date(date) of a 'YYYY-MM-DD' string, dates being numbered by calendar day;
\* the value is kept in seconds (the model's integers are 32 bits wide)
DateValue(d) == d * DaySeconds

-----------------------------------------------------------------------------
(* Exchanges and records *)

\* the exchanges main constructs, in the order of the results array
Exchanges == <<"Binance", "Huobi">>
ExchangeNames == {Exchanges[i] : i \in 1..Len(Exchanges)}

Kline(d, o, h, l, c, v, q) ==
    [date |-> d, open |-> o, high |-> h, low |-> l, close |-> c, volume |-> v,
     quoteVolume |-> q]

\* Object.keys(dayData.exchanges): insertion order, which is the order of the
\* results array because every result is inserted whole before the next one
ObjectKeys(exchanges) ==
    SelectSeq(Exchanges, LAMBDA e : e \in DOMAIN exchanges)

-----------------------------------------------------------------------------
(* mergeExchangeData *)

\* position of date d in the insertion-ordered Map, 0 when absent
MapIndex(map, d) ==
    IF \E i \in 1..Len(map) : map[i].date = d
    THEN CHOOSE i \in 1..Len(map) : map[i].date = d
    ELSE 0

\* exchanges[name] = dayData
SetSlotFirstWins(exchanges, name, dayData) ==
    IF name \in DOMAIN exchanges THEN exchanges
    ELSE [k \in DOMAIN exchanges \cup {name} |->
            IF k = name THEN dayData ELSE exchanges[k]]

SetSlot(exchanges, name, dayData) ==
    [k \in DOMAIN exchanges \cup {name} |->
        IF k = name THEN dayData ELSE exchanges[k]]

\* body of result.data.forEach
MergeDay(map, name, dayData) ==
    LET i == MapIndex(map, dayData.date)
        withKey == IF i = 0
                   THEN Append(map, [date |-> dayData.date, exchanges |-> <<>>])
                   ELSE map
        j == MapIndex(withKey, dayData.date)
    IN  [withKey EXCEPT ![j].exchanges = SetSlot(@, name, dayData)]

NoSort(arr) == arr

\* Array.prototype.sort((a, b) => new Date(a.date) - new Date(b.date)): the
\* elements by ascending comparator value, equal ones in their former order
SortByDate(arr) ==
    LET Before(i, j) ==
            \/ DateValue(arr[i].date) - DateValue(arr[j].date) < 0
            \/ DateValue(arr[i].date) - DateValue(arr[j].date) = 0 /\ i < j
        Rank(i) == Cardinality({j \in 1..Len(arr) : Before(j, i)}) + 1
    IN  [p \in 1..Len(arr) |-> arr[CHOOSE i \in 1..Len(arr) : Rank(i) = p]]

-----------------------------------------------------------------------------
(* validateData *)

\* window of calculateAverageVolume
windowSize == 30

\* data.slice(startIndex, currentIndex).map(d => d.exchanges[exchange]?.volume)
\*     .filter(v => v !== undefined), for the 1-based position index
WindowVolumes(data, exchange, index, size) ==
    LET startIndex == IF index - size > 1 THEN index - size ELSE 1
        window == SubSeq(data, startIndex, index - 1)
        vols == [k \in 1..Len(window) |->
                    IF exchange \in DOMAIN window[k].exchanges
                    THEN window[k].exchanges[exchange].volume
                    ELSE Undefined]
    IN  SelectSeq(vols, LAMBDA v : v # Undefined)

\* volumes.reduce((a, b) => a + b)
RECURSIVE ReduceSum(_, _, _)
ReduceSum(acc, arr, k) ==
    IF k > Len(arr) THEN acc ELSE ReduceSum(Plus(acc, arr[k]), arr, k + 1)

\* the average as the exact fraction sum / n; 0 when the window holds no volume
AverageOver(volumes) ==
    IF Len(volumes) > 0
    THEN [sum |-> ReduceSum(volumes[1], volumes, 2), n |-> Len(volumes)]
    ELSE [sum |-> 0, n |-> 1]

calculateAverageVolumeWide(data, exchange, currentIndex) ==
    AverageOver(WindowVolumes(data, exchange, currentIndex, windowSize + 1))

calculateAverageVolume(data, exchange, currentIndex) ==
    AverageOver(WindowVolumes(data, exchange, currentIndex, windowSize))

\* data && !isNaN(data.open) && ... && !isNaN(data.volume)
CompleteRecord(data) ==
    /\ ~isNaN(data.open)
    /\ ~isNaN(data.high)
    /\ ~isNaN(data.low)
    /\ ~isNaN(data.close)
    /\ ~isNaN(data.volume)

dataCompletenessSome(dayData) ==
    \E e \in DOMAIN dayData.exchanges : CompleteRecord(dayData.exchanges[e])

\* 1. exchanges.every(exchange => ...)
dataCompleteness(dayData) ==
    \A e \in DOMAIN dayData.exchanges : CompleteRecord(dayData.exchanges[e])

RECURSIVE ReduceMax(_, _, _)
ReduceMax(acc, arr, k) ==
    IF k > Len(arr) THEN acc ELSE ReduceMax(MathMax(acc, arr[k]), arr, k + 1)

RECURSIVE ReduceMin(_, _, _)
ReduceMin(acc, arr, k) ==
    IF k > Len(arr) THEN acc ELSE ReduceMin(MathMin(acc, arr[k]), arr, k + 1)

\* 2. the measurements of the price anomaly check; diffPercent is the exact
\*    fraction diffNum / diffDen = (maxDiff / (sum / length)) * 100
PriceDiffOf(dayData) ==
    LET exchanges == ObjectKeys(dayData.exchanges)
        prices == [k \in 1..Len(exchanges) |-> dayData.exchanges[exchanges[k]].close]
        sum == ReduceSum(prices[1], prices, 2)
        hi == ReduceMax(prices[1], prices, 2)
        lo == ReduceMin(prices[1], prices, 2)
        maxDiff == IF isNaN(hi) \/ isNaN(lo) THEN NaN ELSE hi - lo
    IN  [date |-> dayData.date, exchanges |-> exchanges, maxDiff |-> maxDiff,
         diffNum |-> IF isNaN(maxDiff) \/ isNaN(sum) THEN NaN
                     ELSE maxDiff * 100 * Len(prices),
         diffDen |-> sum]

\* diffPercent > limit
DiffPercentAbove(entry, limit) ==
    /\ ~isNaN(entry.diffNum)
    /\ ~isNaN(entry.diffDen)
    /\ entry.diffNum > limit * entry.diffDen

PriceDiffFiresLoose(dayData) ==
    /\ Len(ObjectKeys(dayData.exchanges)) > 1
    /\ DiffPercentAbove(PriceDiffOf(dayData), 2)

PriceDiffFires(dayData) ==
    /\ Len(ObjectKeys(dayData.exchanges)) > 1
    /\ DiffPercentAbove(PriceDiffOf(dayData), 1)

\* 3. volume > avgVolume * 3
VolumeSpikeFires(data, exchange, index) ==
    LET volume == data[index].exchanges[exchange].volume
        avgVolume == calculateAverageVolume(data, exchange, index)
    IN  /\ ~isNaN(volume)
        /\ ~isNaN(avgVolume.sum)
        /\ volume * avgVolume.n > avgVolume.sum * 3

Abs(x) == IF x < 0 THEN -x ELSE x

\* 4. gapPercent > 5 for Math.abs((currOpen - prevClose) / prevClose) * 100
GapAbove(prevClose, currOpen) ==
    /\ ~isNaN(prevClose)
    /\ ~isNaN(currOpen)
    /\ Abs(currOpen - prevClose) * 100 > 5 * prevClose

\* the record the price gap check reads as prevData: mergedData[index - 1]
PrevDataAnyEarlier(data, exchange, index) ==
    LET earlier == {k \in 1..(index - 1) : exchange \in DOMAIN data[k].exchanges}
    IN  IF earlier = {} THEN {}
        ELSE {data[CHOOSE k \in earlier : \A m \in earlier : m <= k].exchanges[exchange]}

PrevData(data, exchange, index) ==
    IF index > 1 /\ exchange \in DOMAIN data[index - 1].exchanges
    THEN {data[index - 1].exchanges[exchange]}
    ELSE {}

PriceGapFires(data, exchange, index) ==
    \E prevData \in PrevData(data, exchange, index) :
        GapAbove(prevData.close, data[index].exchanges[exchange].open)

EmptyValidation ==
    [valid |-> <<>>,
     anomalies |-> [priceDiff |-> <<>>, volumeSpikes |-> <<>>,
                    dataMissing |-> <<>>, priceGaps |-> <<>>],
     stats |-> [totalDays |-> 0, validDays |-> 0,
                exchangeCoverage |-> [e \in ExchangeNames |-> 0]]]

\* the entries pushed by exchanges.forEach of the volume spike check
VolumeSpikeEntries(data, index) ==
    LET exchanges == ObjectKeys(data[index].exchanges)
        fired == SelectSeq(exchanges, LAMBDA e : VolumeSpikeFires(data, e, index))
    IN  [k \in 1..Len(fired) |->
            [date |-> data[index].date, exchange |-> fired[k],
             volume |-> data[index].exchanges[fired[k]].volume,
             avgVolume |-> calculateAverageVolume(data, fired[k], index)]]

\* the entries pushed by exchanges.forEach of the price gap check
PriceGapEntries(data, index) ==
    LET exchanges == ObjectKeys(data[index].exchanges)
        fired == SelectSeq(exchanges, LAMBDA e : PriceGapFires(data, e, index))
    IN  [k \in 1..Len(fired) |->
            [date |-> data[index].date, exchange |-> fired[k],
             prevClose |-> (CHOOSE p \in PrevData(data, fired[k], index) : TRUE).close,
             currOpen |-> data[index].exchanges[fired[k]].open]]

\* the pushes and the statistics update of one iteration, given what fired
DayOutcome(vr, dayData, missing, diff, spikes, gaps, isValidDay) ==
    [valid |-> IF isValidDay THEN Append(vr.valid, dayData) ELSE vr.valid,
     anomalies |->
        [dataMissing |-> IF missing
            THEN Append(vr.anomalies.dataMissing,
                        [date |-> dayData.date,
                         exchanges |-> ObjectKeys(dayData.exchanges)])
            ELSE vr.anomalies.dataMissing,
         priceDiff |-> IF diff
            THEN Append(vr.anomalies.priceDiff, PriceDiffOf(dayData))
            ELSE vr.anomalies.priceDiff,
         volumeSpikes |-> vr.anomalies.volumeSpikes \o spikes,
         priceGaps |-> vr.anomalies.priceGaps \o gaps],
     stats |->
        [totalDays |-> vr.stats.totalDays + 1,
         validDays |-> vr.stats.validDays + (IF isValidDay THEN 1 ELSE 0),
         exchangeCoverage |->
            [e \in ExchangeNames |->
                vr.stats.exchangeCoverage[e] +
                (IF isValidDay /\ e \in DOMAIN dayData.exchanges THEN 1 ELSE 0)]]]

\* one iteration of mergedData.forEach((dayData, index) => ...)
ValidateDayFirstOnly(vr, data, index) ==
    LET missing == ~dataCompleteness(data[index])
        diff == ~missing /\ PriceDiffFires(data[index])
        spikes == IF missing \/ diff THEN <<>> ELSE VolumeSpikeEntries(data, index)
        gaps == IF missing \/ diff \/ spikes # <<>> THEN <<>>
                ELSE PriceGapEntries(data, index)
    IN  DayOutcome(vr, data[index], missing, diff, spikes, gaps,
                   ~missing /\ ~diff /\ spikes = <<>> /\ gaps = <<>>)

ValidateDayGapKeepsDay(vr, data, index) ==
    LET missing == ~dataCompleteness(data[index])
        diff == PriceDiffFires(data[index])
        spikes == VolumeSpikeEntries(data, index)
        gaps == PriceGapEntries(data, index)
    IN  DayOutcome(vr, data[index], missing, diff, spikes, gaps,
                   ~missing /\ ~diff /\ spikes = <<>>)

ValidateDay(vr, data, index) ==
    LET missing == ~dataCompleteness(data[index])
        diff == PriceDiffFires(data[index])
        spikes == VolumeSpikeEntries(data, index)
        gaps == PriceGapEntries(data, index)
    IN  DayOutcome(vr, data[index], missing, diff, spikes, gaps,
                   ~missing /\ ~diff /\ spikes = <<>> /\ gaps = <<>>)

-----------------------------------------------------------------------------
(* analyzeData: the price, volume and trend statistics. The volatility is a   *)
(* function of the prices list kept here; the timeStats buckets accumulate   *)
(* the same closes and volumes by calendar period and are not carried.       *)

\* Infinity, the initial price.lowest.value
Infinity == 1000000000

\* a > b of two field values: false when either is NaN or undefined
Greater(a, b) == ~isNaN(a) /\ ~isNaN(b) /\ a > b

\* a - b of two field values
Minus(a, b) == IF isNaN(a) \/ isNaN(b) THEN NaN ELSE a - b

EmptyAnalysis ==
    [price |-> [highest |-> [value |-> 0, date |-> 0, exchange |-> ""],
                lowest |-> [value |-> Infinity, date |-> 0, exchange |-> ""],
                averages |-> <<>>],
     volume |-> [highest |-> [value |-> 0, date |-> 0, exchange |-> ""],
                 daily |-> <<>>, marketShare |-> <<>>],
     trends |-> [upDays |-> <<>>, downDays |-> <<>>, flatDays |-> <<>>,
                 maxUpStreak |-> <<>>, maxDownStreak |-> <<>>]]

\* obj[key] = value
SetKey(obj, key, value) ==
    [k \in DOMAIN obj \cup {key} |-> IF k = key THEN value ELSE obj[k]]

\* !obj[key] for an object of numbers: the key is absent or holds 0 or NaN
Falsy(obj, key) == key \notin DOMAIN obj \/ obj[key] = 0 \/ obj[key] = NaN

\* 1. Price statistics (lines 279-304)
AnalyzePrice(price, date, exchange, data) ==
    LET averages == IF exchange \in DOMAIN price.averages
                    THEN price.averages[exchange]
                    ELSE [sum |-> 0, count |-> 0, prices |-> <<>>]
    IN  [highest |-> IF Greater(data.close, price.highest.value)
                     THEN [value |-> data.close, date |-> date, exchange |-> exchange]
                     ELSE price.highest,
         lowest |-> IF Greater(price.lowest.value, data.close)
                    THEN [value |-> data.close, date |-> date, exchange |-> exchange]
                    ELSE price.lowest,
         averages |-> SetKey(price.averages, exchange,
                             [sum |-> Plus(averages.sum, data.close),
                              count |-> averages.count + 1,
                              prices |-> Append(averages.prices, data.close)])]

\* 2. Volume statistics (lines 307-322)
AnalyzeVolume(volume, date, exchange, data) ==
    LET daily == IF exchange \in DOMAIN volume.daily THEN volume.daily[exchange]
                 ELSE [sum |-> 0, count |-> 0]
    IN  [highest |-> IF Greater(data.volume, volume.highest.value)
                     THEN [value |-> data.volume, date |-> date, exchange |-> exchange]
                     ELSE volume.highest,
         daily |-> SetKey(volume.daily, exchange,
                          [sum |-> Plus(daily.sum, data.volume),
                           count |-> daily.count + 1]),
         marketShare |-> volume.marketShare]

\* 3. Trend statistics (lines 325-341): the counters are set to 0 whenever
\*    upDays[exchange] is falsy, and the streaks are written nowhere else
AnalyzeTrends(trends, data, index, exchange) ==
    LET reset == Falsy(trends.upDays, exchange)
        Start(obj) == IF reset THEN SetKey(obj, exchange, 0) ELSE obj
        counted == index > 1 /\ exchange \in DOMAIN data[index - 1].exchanges
        priceChange == IF counted
                       THEN Minus(data[index].exchanges[exchange].close,
                                  data[index - 1].exchanges[exchange].close)
                       ELSE NaN
        up == counted /\ Greater(priceChange, 0)
        down == counted /\ ~up /\ Greater(0, priceChange)
        flat == counted /\ ~up /\ ~down
        Count(obj, hit) == IF hit THEN [obj EXCEPT ![exchange] = @ + 1] ELSE obj
    IN  [upDays |-> Count(Start(trends.upDays), up),
         downDays |-> Count(Start(trends.downDays), down),
         flatDays |-> Count(Start(trends.flatDays), flat),
         maxUpStreak |-> Start(trends.maxUpStreak),
         maxDownStreak |-> Start(trends.maxDownStreak)]

\* body of exchanges.forEach of analyzeData
AnalyzeExchange(an, data, index, exchange) ==
    [price |-> AnalyzePrice(an.price, data[index].date, exchange,
                            data[index].exchanges[exchange]),
     volume |-> AnalyzeVolume(an.volume, data[index].date, exchange,
                              data[index].exchanges[exchange]),
     trends |-> AnalyzeTrends(an.trends, data, index, exchange)]

RECURSIVE AnalyzeExchanges(_, _, _, _, _)
AnalyzeExchanges(an, data, index, exchanges, k) ==
    IF k > Len(exchanges) THEN an
    ELSE AnalyzeExchanges(AnalyzeExchange(an, data, index, exchanges[k]),
                          data, index, exchanges, k + 1)

\* one iteration of mergedData.forEach of analyzeData
AnalyzeDay(an, data, index) ==
    AnalyzeExchanges(an, data, index, ObjectKeys(data[index].exchanges), 1)

\* (sum / totalVolume * 100).toFixed(2): hundredths of a percent, rounded
ToFixed2Percent(sum, totalVolume) ==
    IF isNaN(sum) \/ isNaN(totalVolume) \/ totalVolume = 0 THEN NaN
    ELSE (2 * 10000 * sum + totalVolume) \div (2 * totalVolume)

\* 2. Calculate market share (lines 400-403)
MarketShare(an) ==
    LET exchanges == ObjectKeys(an.volume.daily)
        sums == [k \in 1..Len(exchanges) |-> an.volume.daily[exchanges[k]].sum]
        totalVolume == ReduceSum(0, sums, 1)
    IN  [an EXCEPT !.volume.marketShare =
            [e \in DOMAIN an.volume.daily |->
                ToFixed2Percent(an.volume.daily[e].sum, totalVolume)]]

RECURSIVE AnalyzeLoop(_, _, _)
AnalyzeLoop(an, data, index) ==
    IF index > Len(data) THEN an
    ELSE AnalyzeLoop(AnalyzeDay(an, data, index), data, index + 1)

\* analyzeData(mergedData)
analyzeData(data) == MarketShare(AnalyzeLoop(EmptyAnalysis, data, 1))

-----------------------------------------------------------------------------
(* Inputs of a pipeline run: what the exchanges returned *)

\* longest series of an exchange that returns records in any order
MaxLen == 2
\* last calendar day of the short series
MaxDate == 3

\* the records an exchange reports: a plain day; a day that opens 6% up on
\* five times the volume; a day exactly on the 5% and 3x limits; defective days
BinanceKinds ==
    <<[open |-> 100, high |-> 110, low |-> 90, close |-> 100, volume |-> 200,
       quoteVolume |-> 20000],
      [open |-> 106, high |-> 110, low |-> 90, close |-> 100, volume |-> 1000,
       quoteVolume |-> 100000],
      [open |-> 105, high |-> 110, low |-> 90, close |-> 199, volume |-> 600,
       quoteVolume |-> NaN],
      [open |-> 100, high |-> NaN, low |-> 90, close |-> NaN, volume |-> Undefined,
       quoteVolume |-> NaN]>>

HuobiKinds ==
    <<[open |-> 100, high |-> 110, low |-> 90, close |-> 100, volume |-> 200,
       quoteVolume |-> NaN],
      [open |-> 100, high |-> 110, low |-> 90, close |-> 102, volume |-> 200,
       quoteVolume |-> 20400],
      [open |-> Undefined, high |-> 110, low |-> 90, close |-> 201, volume |-> NaN,
       quoteVolume |-> NaN]>>

KindsOf(name) == IF name = "Binance" THEN BinanceKinds ELSE HuobiKinds

KlineOf(name, d, k) ==
    LET f == KindsOf(name)[k]
    IN  Kline(d, f.open, f.high, f.low, f.close, f.volume, f.quoteVolume)

\* series in any order and with repeated dates, over the first two kinds and
\* the days 1..last
AnyOrderSeries(name, last) ==
    UNION {[1..n -> {KlineOf(name, d, k) : d \in 1..last, k \in 1..2}] :
            n \in 0..MaxLen}

\* a daily series: ascending, at most one record per day; pick[d] = 0 is a
\* day the exchange has no record for
DailySeries(name, pick) ==
    LET days == SelectSeq([d \in 1..MaxDate |-> d], LAMBDA d : pick[d] # 0)
    IN  [i \in 1..Len(days) |-> KlineOf(name, days[i], pick[days[i]])]

\* a long run of plain days: Binance reports every day 1..n, the first with
\* volume v1 and the last with volume vn; Huobi reports the days of early, day
\* 1 with five times the plain volume, and day n
LongBinance(n, v1, vn) ==
    [d \in 1..n |-> Kline(d, 100, 110, 90, 100,
                          IF d = 1 THEN v1 ELSE IF d = n THEN vn ELSE 200, 20000)]

LongHuobi(n, early, vn) ==
    [k \in 1..Len(early) |->
        Kline(early[k], 100, 110, 90, 100, IF early[k] = 1 THEN 1000 ELSE 200, 20000)]
    \o <<Kline(n, 100, 110, 90, 100, vn, 20000)>>

ResultsOf(binance, huobi) ==
    <<[name |-> "Binance", data |-> binance], [name |-> "Huobi", data |-> huobi]>>

\* what the exchanges returned: series in any order, daily series, long runs
PipelineInputs ==
    \/ \E b \in AnyOrderSeries("Binance", MaxDate), h \in AnyOrderSeries("Huobi", 2) :
          results = ResultsOf(b, h)
    \/ \E pb \in [1..MaxDate -> 0..Len(BinanceKinds)],
           ph \in [1..MaxDate -> 0..Len(HuobiKinds)] :
          results = ResultsOf(DailySeries("Binance", pb), DailySeries("Huobi", ph))
    \/ \E n \in (windowSize + 1)..(windowSize + 2), v1 \in {200, 90000},
           vn \in {200, 1000}, early \in {<<1>>, <<2>>, <<1, 2>>},
           hn \in {200, 1000} :
          results = ResultsOf(LongBinance(n, v1, vn), LongHuobi(n, early, hn))

-----------------------------------------------------------------------------
(* saveData, mergeWithExistingData *)

\* JSON.parse(JSON.stringify(x)) of a field value: NaN is written as null, an
\* absent field stays absent
JSONValue(x) == IF x = NaN THEN Null ELSE x

JSONKline(r) ==
    [f \in DOMAIN r |-> IF f = "date" THEN r[f] ELSE JSONValue(r[f])]

JSONDay(day) ==
    [date |-> day.date,
     exchanges |-> [e \in DOMAIN day.exchanges |-> JSONKline(day.exchanges[e])]]

\* the file saveData(data, 'btc_price_validated.json') leaves, as JSON.parse
\* reads it back
saveData(data) ==
    [exists |-> TRUE, data |-> [k \in 1..Len(data) |-> JSONDay(data[k])]]

NoFile == [exists |-> FALSE, data |-> <<>>]

DateIndexSetKeepsFirst(dateIndex, item) ==
    IF MapIndex(dateIndex, item.date) = 0 THEN Append(dateIndex, item) ELSE dateIndex

\* dateIndex.set(item.date, item): a known key keeps its place in the Map
DateIndexSet(dateIndex, item) ==
    LET i == MapIndex(dateIndex, item.date)
    IN  IF i = 0 THEN Append(dateIndex, item) ELSE [dateIndex EXCEPT ![i] = item]

RECURSIVE DateIndexSetAll(_, _, _)
DateIndexSetAll(dateIndex, items, k) ==
    IF k > Len(items) THEN dateIndex
    ELSE DateIndexSetAll(DateIndexSet(dateIndex, items[k]), items, k + 1)

mergeWithExistingDataAppend(file, data) ==
    IF ~file.exists THEN data ELSE SortByDate(file.data \o data)

\* fs.readFile throws when the file does not exist: the catch returns newData
mergeWithExistingData(file, data) ==
    IF ~file.exists THEN data
    ELSE SortByDate(DateIndexSetAll(DateIndexSetAll(<<>>, file.data, 1), data, 1))

\* a validated day as validateData can return it: one exchange, or two that
\* agree, a quoteVolume being NaN in the second case
ValidDay(d, k) ==
    IF k = 1
    THEN [date |-> d, exchanges |-> [Binance |-> KlineOf("Binance", d, 1)]]
    ELSE [date |-> d, exchanges |-> [Binance |-> KlineOf("Binance", d, 1),
                                     Huobi |-> KlineOf("Huobi", d, 1)]]

\* ascending sequences of validated days, at most one per date
ValidSequence(pick) ==
    LET days == SelectSeq([d \in 1..MaxDate |-> d], LAMBDA d : pick[d] # 0)
    IN  [i \in 1..Len(days) |-> ValidDay(days[i], pick[days[i]])]

ValidSequences == {ValidSequence(pick) : pick \in [1..MaxDate -> 0..2]}

-----------------------------------------------------------------------------
(* The page loops: PriceFetcher.fetchAllData and OKXExchange.fetchKlines *)

\* MAX_FAILURES of both page loops
MAX_FAILURES == 10
\* config.MAX_RETRIES
MAX_RETRIES == 5
\* maxRetries of BaseExchange.makeRequest
maxRetries == 3
\* config.API_ENDPOINTS.length
EndpointCount == 6
\* OKXExchange.backupUrls.length
BackupUrlCount == 4
\* OKXExchange.proxies.length
ProxyCount == 5

\* last day that has begun when the call is made
LastDay == 2
\* most candles in one page
PageLimit == 2
\* most wire records a call accumulates in the model
MaxRecords == 3

\* time runs in half days: the candle of day d opens at OpenTime(d) and closes
\* one tick before the next opens
OpenTime(d) == 2 * d
CloseTime(d) == 2 * d + 1
\* the endTime argument: the moment of the call, after the last candle opened
EndTime == OpenTime(LastDay) + 1

Clients == {"PriceFetcher", "OKX"}

\* the candles the upstream returns for a request from time `from`: the first
\* n of the days it holds that open at or after it
Page(from, n) ==
    LET days == SelectSeq([d \in 1..(lastCandle + 1) |-> d - 1],
                          LAMBDA d : OpenTime(d) >= from /\ OpenTime(d) <= EndTime)
    IN  SubSeq(days, 1, IF n < Len(days) THEN n ELSE Len(days))

\* the start the page request carries: PriceFetcher sends currentStartTime,
\* OKXExchange sends moment(startTime)
RequestedStart ==
    IF client = "PriceFetcher" THEN currentStartTime ELSE startTime

\* the cursor after a page: data[data.length - 1][6] + 1 is one past the close
\* time, response.data[response.data.length - 1][0] + 1 one past the open time
CursorAfter(page) ==
    IF client = "PriceFetcher" THEN CloseTime(page[Len(page)]) + 1
    ELSE OpenTime(page[Len(page)]) + 1

\* config.API_ENDPOINTS
API_ENDPOINTS ==
    <<"https://api.binance.com", "https://api1.binance.com",
      "https://api2.binance.com", "https://api3.binance.com",
      "https://api-apac.binance.com", "https://api-eu.binance.com">>

\* OKXExchange.backupUrls
backupUrls ==
    <<"https://www.okx.com", "https://aws.okx.com", "https://okx.com",
      "https://api.okx.com">>

\* the URL list the client is configured with
UrlList == IF client = "PriceFetcher" THEN API_ENDPOINTS ELSE backupUrls

\* baseURL / baseUrl: the constructor and switchEndpoint assign it from the
\* index, so it is a function of the index
baseUrl ==
    IF client = "PriceFetcher" THEN API_ENDPOINTS[endpointIndex + 1]
    ELSE IF endpointIndex = 0 THEN "https://www.okx.com"
         ELSE backupUrls[endpointIndex]

\* the number of switchEndpoint calls after one more, counted modulo the
\* length of the URL list
OneMoreSwitch == (switchCalls + 1) % Len(UrlList)

\* switchEndpoint of the client
NextEndpoint ==
    IF client = "PriceFetcher" THEN (endpointIndex + 1) % EndpointCount
    ELSE (endpointIndex + 1) % (BackupUrlCount + 1)

\* 2000 * Math.pow(2, n): BaseExchange.makeRequest and the catch of fetchKlines
BaseDelay == 2000
\* the cap of Math.min(..., 10000)
MaxDelay == 10000
\* config.RETRY_DELAY
RETRY_DELAY == 2000
\* the sleep(5000) of the catch of fetchAllData
FailureDelay == 5000
\* Math.random() * 1000: the ends of the range, in whole milliseconds
Jitters == {0, 999}

RECURSIVE Pow2(_)
Pow2(n) == IF n = 0 THEN 1 ELSE 2 * Pow2(n - 1)

\* Math.min(2000 * Math.pow(2, n) + Math.random() * 1000, 10000)
backoffTime(n, jitter) ==
    IF BaseDelay * Pow2(n) + jitter < MaxDelay
    THEN BaseDelay * Pow2(n) + jitter ELSE MaxDelay

\* no failed attempt since the last page
NoRetry == [failed |-> FALSE, rotated |-> FALSE, slept |-> 0, count |-> 0]

\* after a failed attempt: whether switchEndpoint was called, how long the
\* client slept, and the number of consecutive failures this one made
Retried(rotated, slept, count) ==
    [failed |-> TRUE, rotated |-> rotated, slept |-> slept, count |-> count]

\* what a response body of OKX that is no array leaves in allData
ResponseObject == 0 - 1

\* the while condition, evaluated with the cursor c
LoopPc(c) == IF c < EndTime THEN "request" ELSE "returned"

FetchCall ==
    /\ client \in Clients
    /\ startTime \in {OpenTime(d) : d \in 0..LastDay}
    /\ lastCandle \in {LastDay - 1, LastDay}
    /\ currentStartTime = startTime
    /\ allData = <<>>
    /\ failureCount = 0
    /\ attempt = 0
    /\ endpointIndex = 0
    /\ switchCalls = 0
    /\ proxyIndex = IF client = "OKX" THEN 1 ELSE 0
    /\ fetchPc = LoopPc(startTime)
    /\ wireData = <<>>
    /\ klines = <<>>
    /\ retry = NoRetry

PageArrivesKeepsCount ==
    /\ fetchPc = "request"
    /\ \E n \in 1..PageLimit :
          LET page == Page(RequestedStart, n)
              cursor == CursorAfter(page)
          IN  /\ page # <<>>
              /\ Len(allData) + Len(page) <= MaxRecords
              /\ allData' = allData \o page
              /\ currentStartTime' = cursor
              /\ fetchPc' = LoopPc(cursor)
    /\ failureCount' = failureCount
    /\ attempt' = 0
    /\ retry' = NoRetry
    /\ proxyIndex' = IF client = "OKX" /\ fetchPc' = "request"
                     THEN (proxyIndex + 1) % ProxyCount ELSE proxyIndex
    /\ UNCHANGED <<client, endpointIndex, switchCalls, startTime, lastCandle,
                   pipeVars, fileVars, mainVars, formatVars, schedVars>>

\* the request returns a page with candles
PageArrives ==
    /\ fetchPc = "request"
    /\ \E n \in 1..PageLimit :
          LET page == Page(RequestedStart, n)
              cursor == CursorAfter(page)
          IN  /\ page # <<>>
              /\ Len(allData) + Len(page) <= MaxRecords
              /\ allData' = allData \o page
              /\ currentStartTime' = cursor
              /\ fetchPc' = LoopPc(cursor)
    /\ failureCount' = 0
    /\ attempt' = 0
    /\ retry' = NoRetry
    /\ proxyIndex' = IF client = "OKX" /\ fetchPc' = "request"
                     THEN (proxyIndex + 1) % ProxyCount ELSE proxyIndex
    /\ UNCHANGED <<client, endpointIndex, switchCalls, startTime, lastCandle,
                   pipeVars, fileVars, mainVars, formatVars, schedVars>>

\* the request returns an empty page: break
EmptyPageArrives ==
    /\ fetchPc = "request"
    /\ Page(RequestedStart, PageLimit) = <<>>
    /\ fetchPc' = "returned"
    /\ attempt' = 0
    /\ retry' = NoRetry
    /\ UNCHANGED <<client, allData, currentStartTime, failureCount, endpointIndex,
                   switchCalls, proxyIndex, startTime, lastCandle, pipeVars,
                   fileVars, mainVars, formatVars, schedVars>>

\* PriceFetcher.makeRequest: checkDNS fails; switchEndpoint, continue. When the
\* for loop runs out this way makeRequest returns undefined and fetchAllData
\* takes its !data branch
ProbeFails ==
    /\ fetchPc = "request"
    /\ client = "PriceFetcher"
    /\ endpointIndex' = NextEndpoint
    /\ switchCalls' = OneMoreSwitch
    /\ retry' = Retried(TRUE, 0, attempt + 1)
    /\ IF attempt + 1 < MAX_RETRIES
       THEN attempt' = attempt + 1 /\ fetchPc' = "request"
       ELSE attempt' = 0 /\ fetchPc' = "returned"
    /\ UNCHANGED <<client, allData, currentStartTime, failureCount, proxyIndex,
                   startTime, lastCandle, pipeVars, fileVars, mainVars, formatVars,
                   schedVars>>

\* an attempt of makeRequest fails and another one is left: PriceFetcher
\* switches the endpoint and sleeps RETRY_DELAY, BaseExchange backs off
AttemptFails ==
    /\ fetchPc = "request"
    /\ attempt + 1 < (IF client = "PriceFetcher" THEN MAX_RETRIES ELSE maxRetries)
    /\ attempt' = attempt + 1
    /\ endpointIndex' = IF client = "PriceFetcher" THEN NextEndpoint ELSE endpointIndex
    /\ switchCalls' = IF client = "PriceFetcher" THEN OneMoreSwitch ELSE switchCalls
    /\ \E jitter \in Jitters :
          retry' = IF client = "PriceFetcher"
                   THEN Retried(TRUE, RETRY_DELAY, attempt + 1)
                   ELSE Retried(FALSE, backoffTime(attempt, jitter), attempt + 1)
    /\ UNCHANGED <<client, fetchPc, allData, currentStartTime, failureCount,
                   proxyIndex, startTime, lastCandle, pipeVars, fileVars, mainVars,
                   formatVars, schedVars>>

\* the catch of the page loop: one failure more. At MAX_FAILURES fetchAllData
\* breaks and returns allData, fetchKlines throws; below it the client
\* switches the endpoint and sleeps
CatchFailure ==
    /\ failureCount' = failureCount + 1
    /\ attempt' = 0
    /\ IF failureCount + 1 >= MAX_FAILURES
       THEN /\ fetchPc' = IF client = "PriceFetcher" THEN "returned" ELSE "thrown"
            /\ retry' = NoRetry
            /\ UNCHANGED <<endpointIndex, switchCalls, proxyIndex>>
       ELSE /\ fetchPc' = "request"
            /\ endpointIndex' = NextEndpoint
            /\ switchCalls' = OneMoreSwitch
            /\ proxyIndex' = IF client = "OKX" THEN (proxyIndex + 1) % ProxyCount
                             ELSE proxyIndex
            /\ \E jitter \in Jitters :
                  retry' = IF client = "PriceFetcher"
                           THEN Retried(TRUE, FailureDelay, failureCount + 1)
                           ELSE Retried(TRUE, backoffTime(failureCount + 1, jitter),
                                        failureCount + 1)

\* the last attempt of makeRequest fails: it throws, and the catch of the page
\* loop counts one failure
RequestFails ==
    /\ fetchPc = "request"
    /\ attempt + 1 = (IF client = "PriceFetcher" THEN MAX_RETRIES ELSE maxRetries)
    /\ CatchFailure
    /\ UNCHANGED <<client, allData, currentStartTime, startTime, lastCandle,
                   pipeVars, fileVars, mainVars, formatVars, schedVars>>

\* OKXExchange.fetchKlines: the request completes with a body that is an
\* object, not an array (validateStatus lets every status below 500 through).
\* response.data.length is undefined, so the body passes the empty test and
\* is appended by concat; response.data[NaN][0] then throws a TypeError and
\* the catch of the page loop counts one failure
ObjectBodyArrives ==
    /\ fetchPc = "request"
    /\ client = "OKX"
    /\ Len(allData) < MaxRecords
    /\ allData' = Append(allData, ResponseObject)
    /\ CatchFailure
    /\ UNCHANGED <<client, currentStartTime, startTime, lastCandle, pipeVars,
                   fileVars, mainVars, formatVars, schedVars>>

FetchNext ==
    \/ PageArrives
    \/ EmptyPageArrives
    \/ ProbeFails
    \/ AttemptFails
    \/ RequestFails
    \/ ObjectBodyArrives

-----------------------------------------------------------------------------
(* The pipeline run: main *)

FetchIdle ==
    /\ client = "PriceFetcher"
    /\ fetchPc = "returned"
    /\ allData = <<>>
    /\ currentStartTime = 0
    /\ failureCount = 0
    /\ attempt = 0
    /\ endpointIndex = 0
    /\ proxyIndex = 0
    /\ startTime = 0
    /\ lastCandle = 0
    /\ switchCalls = 0
    /\ wireData = <<>>
    /\ klines = <<>>
    /\ retry = NoRetry

FileIdle ==
    /\ validatedFile = NoFile
    /\ newData = <<>>
    /\ runs = <<>>

\* moment('2017-07-01'), the day the calendar days are counted from
Epoch == 0

\* a document of the data directory that nothing wrote yet
NoDocument(empty) == [exists |-> FALSE, data |-> empty]

\* the file saveData(data, filename) leaves for a document that the program
\* never reads back
saveDocument(data) == [exists |-> TRUE, data |-> data]

Pending == [state |-> "pending", data |-> <<>>]

MainIdle ==
    /\ mode = "full"
    /\ runStartTime = Epoch
    /\ fetched = [e \in ExchangeNames |-> Pending]
    /\ rawFiles = {}
    /\ analyzeIndex = 1
    /\ analysis = EmptyAnalysis
    /\ anomaliesFile = NoDocument(EmptyValidation.anomalies)
    /\ analysisFile = NoDocument(EmptyAnalysis)
    /\ persistedBefore = [validated |-> NoFile,
                          anomalies |-> NoDocument(EmptyValidation.anomalies),
                          analysis |-> NoDocument(EmptyAnalysis)]
    /\ exitCode = 0

\* no scheduler running
SchedIdle ==
    /\ inFlight = {}
    /\ spawned = 0
    /\ writes = <<>>

PipelineIdle ==
    /\ results = <<>>
    /\ mergedMap = <<>>
    /\ resultIndex = 1
    /\ dayIndex = 1
    /\ mergedData = <<>>
    /\ validateIndex = 1
    /\ validation = EmptyValidation
    /\ stage = "idle"

\* main at const mergedData = mergeExchangeData(validResults)
PipelineInit ==
    /\ PipelineInputs
    /\ mergedMap = <<>>
    /\ resultIndex = 1
    /\ dayIndex = 1
    /\ mergedData = <<>>
    /\ validateIndex = 1
    /\ validation = EmptyValidation
    /\ stage = "fetched"
    /\ FileIdle
    /\ FetchIdle
    /\ MainIdle
    /\ SchedIdle

\* mergeExchangeData: one iteration of result.data.forEach
MergeDayData ==
    /\ stage = "fetched"
    /\ resultIndex <= Len(results)
    /\ dayIndex <= Len(results[resultIndex].data)
    /\ mergedMap' = MergeDay(mergedMap, results[resultIndex].name,
                           results[resultIndex].data[dayIndex])
    /\ dayIndex' = dayIndex + 1
    /\ UNCHANGED <<results, resultIndex, mergedData, validateIndex, validation,
                   stage, fileVars, fetchVars, mainVars, schedVars>>

\* mergeExchangeData: result.data.forEach is done, results.forEach moves on
MergeNextResult ==
    /\ stage = "fetched"
    /\ resultIndex <= Len(results)
    /\ dayIndex > Len(results[resultIndex].data)
    /\ resultIndex' = resultIndex + 1
    /\ dayIndex' = 1
    /\ UNCHANGED <<results, mergedMap, mergedData, validateIndex, validation,
                   stage, fileVars, fetchVars, mainVars, schedVars>>

\* mergeExchangeData: return Array.from(mergedMap.values()).sort(...)
MergeReturn ==
    /\ stage = "fetched"
    /\ resultIndex > Len(results)
    /\ mergedData' = SortByDate(mergedMap)
    /\ stage' = "merged"
    /\ UNCHANGED <<results, mergedMap, resultIndex, dayIndex, validateIndex,
                   validation, fileVars, fetchVars, mainVars, schedVars>>

\* validateData: one iteration of mergedData.forEach
ValidateDayData ==
    /\ stage = "merged"
    /\ validateIndex <= Len(mergedData)
    /\ validation' = ValidateDay(validation, mergedData, validateIndex)
    /\ validateIndex' = validateIndex + 1
    /\ UNCHANGED <<results, mergedMap, resultIndex, dayIndex, mergedData, stage,
                   fileVars, fetchVars, mainVars, schedVars>>

\* validateData: return validationResults
ValidateReturn ==
    /\ stage = "merged"
    /\ validateIndex > Len(mergedData)
    /\ stage' = "validated"
    /\ UNCHANGED <<results, mergedMap, resultIndex, dayIndex, mergedData,
                   validateIndex, validation, fileVars, fetchVars, mainVars,
                   schedVars>>

PipelineNext ==
    \/ MergeDayData
    \/ MergeNextResult
    \/ MergeReturn
    \/ ValidateDayData
    \/ ValidateReturn

SpecPipeline == PipelineInit /\ [][PipelineNext]_vars

\* most increment runs that are given the same validated days
MaxRuns == 2

IncrementInit ==
    /\ validatedFile \in {NoFile} \cup {saveData(seq) : seq \in ValidSequences}
    /\ newData \in ValidSequences
    /\ runs = <<>>
    /\ PipelineIdle
    /\ FetchIdle
    /\ MainIdle
    /\ SchedIdle

\* main in increment mode, from the merge with the file to the save:
\*   validation.valid = await mergeWithExistingData(validation.valid);
\*   await saveData(validation.valid, 'btc_price_validated.json')
IncrementRun ==
    /\ Len(runs) < MaxRuns
    /\ LET valid == mergeWithExistingData(validatedFile, newData)
       IN  /\ runs' = Append(runs, [existing |-> validatedFile, valid |-> valid])
           /\ validatedFile' = saveData(valid)
    /\ UNCHANGED <<newData, pipeVars, fetchVars, mainVars, schedVars>>

IncrementNext == IncrementRun

SpecIncrement == IncrementInit /\ [][IncrementNext]_vars

FetchInit ==
    /\ FetchCall
    /\ PipelineIdle
    /\ FileIdle
    /\ MainIdle
    /\ SchedIdle

SpecFetch == FetchInit /\ [][FetchNext]_vars

\* The page loop without a limit on the number of iterations: of allData the
\* first MaxRecords records are kept, which no condition of the loop reads
Kept(records) ==
    SubSeq(records, 1, IF Len(records) < MaxRecords THEN Len(records) ELSE MaxRecords)

\* the request returns a page with candles
PageArrivesAgain ==
    /\ fetchPc = "request"
    /\ \E n \in 1..PageLimit :
          LET page == Page(RequestedStart, n)
              cursor == CursorAfter(page)
          IN  /\ page # <<>>
              /\ allData' = Kept(allData \o page)
              /\ currentStartTime' = cursor
              /\ fetchPc' = LoopPc(cursor)
    /\ failureCount' = 0
    /\ attempt' = 0
    /\ retry' = NoRetry
    /\ proxyIndex' = IF client = "OKX" /\ fetchPc' = "request"
                     THEN (proxyIndex + 1) % ProxyCount ELSE proxyIndex
    /\ UNCHANGED <<client, endpointIndex, switchCalls, startTime, lastCandle,
                   pipeVars, fileVars, mainVars, formatVars, schedVars>>

\* the request of OKX completes with a body that is no array
ObjectBodyArrivesAgain ==
    /\ fetchPc = "request"
    /\ client = "OKX"
    /\ allData' = Kept(Append(allData, ResponseObject))
    /\ CatchFailure
    /\ UNCHANGED <<client, currentStartTime, startTime, lastCandle, pipeVars,
                   fileVars, mainVars, formatVars, schedVars>>

FetchLoopNext ==
    \/ PageArrivesAgain
    \/ EmptyPageArrives
    \/ ProbeFails
    \/ AttemptFails
    \/ RequestFails
    \/ ObjectBodyArrivesAgain

\* every request is answered: a call that can take a step takes one
SpecFetchLoop == FetchInit /\ [][FetchLoopNext]_vars /\ WF_vars(FetchLoopNext)

-----------------------------------------------------------------------------
(* OKXExchange.formatData: from the wire tuples to the records *)

\* most wire tuples in one formatData argument
MaxWire == 2
\* most characters of a wire field
MaxText == 2

Digits == {"0", "1"}

\* a field of a wire tuple: absent (item[k] is undefined) or a string
WireFields ==
    {[present |-> FALSE, text |-> <<>>]} \cup
    {[present |-> TRUE, text |-> t] :
        t \in UNION {[1..n -> {"1", "x"}] : n \in 0..MaxText}}

\* the number of leading characters of the text that are digits
NumericPrefix(text) ==
    CHOOSE n \in 0..Len(text) :
        /\ \A i \in 1..n : text[i] \in Digits
        /\ n < Len(text) => text[n + 1] \notin Digits

RECURSIVE DecimalValue(_, _)
DecimalValue(text, n) ==
    IF n = 0 THEN 0
    ELSE 10 * DecimalValue(text, n - 1) + (IF text[n] = "1" THEN 1 ELSE 0)

\* parseFloat(field): the number its leading digits spell, NaN when the field
\* is absent or starts with no digit
parseFloat(field) ==
    IF field.present /\ NumericPrefix(field.text) > 0
    THEN DecimalValue(field.text, NumericPrefix(field.text))
    ELSE NaN

\* the callback of data.map in formatData
FormatItem(item) ==
    Kline(item.ts, parseFloat(item.open), parseFloat(item.high),
          parseFloat(item.low), parseFloat(item.close), parseFloat(item.volume),
          parseFloat(item.quoteVolume))

formatData(data) == [k \in 1..Len(data) |-> FormatItem(data[k])]

\* a wire tuple of day d whose close and volume are the given fields
WireItem(d, c, v) ==
    LET ten == [present |-> TRUE, text |-> <<"1", "0">>]
    IN  [ts |-> d, open |-> ten, high |-> ten, low |-> ten, close |-> c,
         volume |-> v, quoteVolume |-> ten]

FormatInit ==
    /\ \E n \in 1..MaxWire :
          \E c \in [1..n -> WireFields], v \in [1..n -> WireFields] :
              wireData = [k \in 1..n |-> WireItem(k, c[k], v[k])]
    /\ klines = <<>>
    /\ retry = NoRetry
    /\ client = "OKX"
    /\ fetchPc = "returned"
    /\ allData = <<>>
    /\ currentStartTime = 0
    /\ failureCount = 0
    /\ attempt = 0
    /\ endpointIndex = 0
    /\ proxyIndex = 0
    /\ startTime = 0
    /\ lastCandle = 0
    /\ switchCalls = 0
    /\ PipelineIdle
    /\ FileIdle
    /\ MainIdle
    /\ SchedIdle

\* return this.formatData(allData)
FormatData ==
    /\ wireData # <<>>
    /\ klines = <<>>
    /\ klines' = formatData(wireData)
    /\ UNCHANGED <<client, fetchPc, allData, currentStartTime, failureCount,
                   attempt, endpointIndex, proxyIndex, startTime, lastCandle,
                   switchCalls, wireData, retry, pipeVars, fileVars, mainVars,
                   schedVars>>

FormatNext == FormatData

SpecFormat == FormatInit /\ [][FormatNext]_vars

-----------------------------------------------------------------------------
(* A whole run of main, from the start time selection to the process end *)

\* days an exchange is asked for in the runs of the model
FetchSpan == 2

Modes == {"full", "increment"}

getLatestDataDateFirst(file) ==
    IF file.exists /\ Len(file.data) > 0 THEN file.data[1].date ELSE Null

\* getLatestDataDate: the date of the last element of the validated file, null
\* when the file is missing or holds no element
getLatestDataDate(file) ==
    IF file.exists /\ Len(file.data) > 0 THEN file.data[Len(file.data)].date ELSE Null

\* main: the start time selection
StartTimeOf(m, file) ==
    IF m = "increment"
    THEN LET latestDate == getLatestDataDate(file)
         IN  IF latestDate # Null THEN latestDate + 1 ELSE Epoch
    ELSE Epoch

\* the record kinds the exchanges report in the runs of the model
MainKinds(name) == IF name = "Binance" THEN {1, 3} ELSE {1, 2}

\* what exchange.fetchKlines(startTime, endTime) can return: a daily series
\* over the days from startTime on, possibly empty
FetchedSeries(name, from) ==
    {[i \in 1..Len(days) |-> KlineOf(name, days[i].d, days[i].k)] :
        days \in UNION {{SelectSeq([j \in 1..FetchSpan |->
                                      [d |-> from + j - 1, k |-> pick[j]]],
                                   LAMBDA x : x.k # 0)} :
                         pick \in [1..FetchSpan -> {0} \cup MainKinds(name)]}}

\* what the run finds persisted: nothing, or the three documents of an earlier
\* run whose validated days are ascending without a repeated date
PreviousAnomalies ==
    [EmptyValidation.anomalies EXCEPT
        !.dataMissing = <<[date |-> Epoch, exchanges |-> <<"Binance">>]>>]

PreviousAnalysis == analyzeData(<<ValidDay(Epoch, 1)>>)

MainInit ==
    /\ stage = "start"
    /\ mode \in Modes
    /\ \/ /\ validatedFile = NoFile
          /\ anomaliesFile = NoDocument(EmptyValidation.anomalies)
          /\ analysisFile = NoDocument(EmptyAnalysis)
       \/ /\ \E pick \in [1..MaxDate -> 0..1] :
                validatedFile = saveData(ValidSequence(pick))
          /\ anomaliesFile = saveDocument(PreviousAnomalies)
          /\ analysisFile = saveDocument(PreviousAnalysis)
    /\ persistedBefore = [validated |-> validatedFile, anomalies |-> anomaliesFile,
                          analysis |-> analysisFile]
    /\ runStartTime = Epoch
    /\ fetched = [e \in ExchangeNames |-> Pending]
    /\ rawFiles = {}
    /\ analyzeIndex = 1
    /\ analysis = EmptyAnalysis
    /\ exitCode = 0
    /\ newData = <<>>
    /\ runs = <<>>
    /\ results = <<>>
    /\ mergedMap = <<>>
    /\ resultIndex = 1
    /\ dayIndex = 1
    /\ mergedData = <<>>
    /\ validateIndex = 1
    /\ validation = EmptyValidation
    /\ FetchIdle
    /\ SchedIdle

\* main: startTime is chosen from argv.mode and getLatestDataDate()
SelectStartTime ==
    /\ stage = "start"
    /\ runStartTime' = StartTimeOf(mode, validatedFile)
    /\ stage' = "fetching"
    /\ UNCHANGED <<results, mergedMap, resultIndex, dayIndex, mergedData,
                   validateIndex, validation, fileVars, fetchVars, mode, fetched,
                   rawFiles, analyzeIndex, analysis, anomaliesFile, analysisFile,
                   persistedBefore, exitCode, schedVars>>

\* fetchExchangeData(exchange, ...) rejects, fetchKlines or the save of the raw
\* series having thrown: the catch of main makes the result null
FetchRejects ==
    /\ stage = "fetching"
    /\ \E e \in ExchangeNames :
          /\ fetched[e].state = "pending"
          /\ fetched' = [fetched EXCEPT ![e] = [state |-> "null", data |-> <<>>]]
    /\ UNCHANGED <<pipeVars, fileVars, fetchVars, mode, runStartTime, rawFiles,
                   analyzeIndex, analysis, anomaliesFile, analysisFile,
                   persistedBefore, exitCode, schedVars>>

\* fetchExchangeData(exchange, ...) resolves: the raw series is saved and
\* {name, data} returned
FetchResolves ==
    /\ stage = "fetching"
    /\ \E e \in ExchangeNames :
          /\ fetched[e].state = "pending"
          /\ \E data \in FetchedSeries(e, runStartTime) :
                fetched' = [fetched EXCEPT ![e] = [state |-> "result", data |-> data]]
          /\ rawFiles' = rawFiles \cup {e}
    /\ UNCHANGED <<pipeVars, fileVars, fetchVars, mode, runStartTime,
                   analyzeIndex, analysis, anomaliesFile, analysisFile,
                   persistedBefore, exitCode, schedVars>>

validResultsWithNull(settled) ==
    [k \in 1..Len(Exchanges) |->
        [name |-> Exchanges[k], data |-> settled[Exchanges[k]].data]]

\* results.filter(result => result !== null), results in the order of exchanges
validResults(settled) ==
    LET valid == SelectSeq(Exchanges, LAMBDA e : settled[e].state = "result")
    IN  [k \in 1..Len(valid) |->
            [name |-> valid[k], data |-> settled[valid[k]].data]]

\* await Promise.all(...); const validResults = ...; with no valid result main
\* has nothing more to do and the process ends
FilterResults ==
    /\ stage = "fetching"
    /\ \A e \in ExchangeNames : fetched[e].state # "pending"
    /\ results' = validResults(fetched)
    /\ stage' = IF Len(validResults(fetched)) > 0 THEN "fetched" ELSE "done"
    /\ UNCHANGED <<mergedMap, resultIndex, dayIndex, mergedData, validateIndex,
                   validation, fileVars, fetchVars, mainVars, schedVars>>

\* analyzeData(mergedData): one iteration of mergedData.forEach
AnalyzeDayData ==
    /\ stage = "validated"
    /\ analyzeIndex <= Len(mergedData)
    /\ analysis' = AnalyzeDay(analysis, mergedData, analyzeIndex)
    /\ analyzeIndex' = analyzeIndex + 1
    /\ UNCHANGED <<pipeVars, fileVars, fetchVars, mode, runStartTime, fetched,
                   rawFiles, anomaliesFile, analysisFile, persistedBefore, exitCode,
                   schedVars>>

\* analyzeData(mergedData): the final statistics and the return
AnalyzeReturn ==
    /\ stage = "validated"
    /\ analyzeIndex > Len(mergedData)
    /\ analysis' = MarketShare(analysis)
    /\ stage' = "analyzed"
    /\ UNCHANGED <<results, mergedMap, resultIndex, dayIndex, mergedData,
                   validateIndex, validation, fileVars, fetchVars, mode,
                   runStartTime, fetched, rawFiles, analyzeIndex, anomaliesFile,
                   analysisFile, persistedBefore, exitCode, schedVars>>

\* if (argv.mode === 'increment') validation.valid = await mergeWithExistingData(...)
MergeIfIncrement ==
    /\ stage = "analyzed"
    /\ validation' = IF mode = "increment"
                     THEN [validation EXCEPT
                              !.valid = mergeWithExistingData(validatedFile, @)]
                     ELSE validation
    /\ stage' = "reconciled"
    /\ UNCHANGED <<results, mergedMap, resultIndex, dayIndex, mergedData,
                   validateIndex, fileVars, fetchVars, mainVars, schedVars>>

\* await saveData(validation.valid, 'btc_price_validated.json')
SaveValidated ==
    /\ stage = "reconciled"
    /\ validatedFile' = saveData(validation.valid)
    /\ stage' = "savedValidated"
    /\ UNCHANGED <<results, mergedMap, resultIndex, dayIndex, mergedData,
                   validateIndex, validation, newData, runs, fetchVars, mainVars,
                   schedVars>>

\* await saveData(validation.anomalies, 'btc_price_anomalies.json')
SaveAnomalies ==
    /\ stage = "savedValidated"
    /\ anomaliesFile' = saveDocument(validation.anomalies)
    /\ stage' = "savedAnomalies"
    /\ UNCHANGED <<results, mergedMap, resultIndex, dayIndex, mergedData,
                   validateIndex, validation, fileVars, fetchVars, mode,
                   runStartTime, fetched, rawFiles, analyzeIndex, analysis,
                   analysisFile, persistedBefore, exitCode, schedVars>>

\* await saveData(analysis, 'btc_price_analysis.json')
SaveAnalysis ==
    /\ stage = "savedAnomalies"
    /\ analysisFile' = saveDocument(analysis)
    /\ stage' = "savedAnalysis"
    /\ UNCHANGED <<results, mergedMap, resultIndex, dayIndex, mergedData,
                   validateIndex, validation, fileVars, fetchVars, mode,
                   runStartTime, fetched, rawFiles, analyzeIndex, analysis,
                   anomaliesFile, persistedBefore, exitCode, schedVars>>

\* one of the three saveData calls throws (fs.mkdir or fs.writeFile failed):
\* the catch of main logs the error and calls process.exit(1)
SaveDataThrows ==
    /\ stage \in {"reconciled", "savedValidated", "savedAnomalies"}
    /\ exitCode' = 1
    /\ stage' = "done"
    /\ UNCHANGED <<results, mergedMap, resultIndex, dayIndex, mergedData,
                   validateIndex, validation, fileVars, fetchVars, mode,
                   runStartTime, fetched, rawFiles, analyzeIndex, analysis,
                   anomaliesFile, analysisFile, persistedBefore, schedVars>>

\* the summary is printed and main returns: the process ends with status 0
MainReturns ==
    /\ stage = "savedAnalysis"
    /\ stage' = "done"
    /\ UNCHANGED <<results, mergedMap, resultIndex, dayIndex, mergedData,
                   validateIndex, validation, fileVars, fetchVars, mainVars,
                   schedVars>>

\* the process is killed while the run is under way
Crash ==
    /\ stage \notin {"done", "crashed"}
    /\ stage' = "crashed"
    /\ UNCHANGED <<results, mergedMap, resultIndex, dayIndex, mergedData,
                   validateIndex, validation, fileVars, fetchVars, mainVars,
                   schedVars>>

MainNext ==
    \/ SelectStartTime
    \/ FetchRejects
    \/ FetchResolves
    \/ FilterResults
    \/ MergeDayData
    \/ MergeNextResult
    \/ MergeReturn
    \/ ValidateDayData
    \/ ValidateReturn
    \/ AnalyzeDayData
    \/ AnalyzeReturn
    \/ MergeIfIncrement
    \/ SaveValidated
    \/ SaveAnomalies
    \/ SaveAnalysis
    \/ SaveDataThrows
    \/ MainReturns
    \/ Crash

SpecMain == MainInit /\ [][MainNext]_vars

-----------------------------------------------------------------------------
(* The scheduler: cron jobs that spawn pipeline runs as child processes *)

\* most spawnProcess calls the model follows
MaxSpawns == 3

\* spawnProcess(script): a child process running main is started; nothing
\* looks at the children already running
spawnProcess(script) ==
    /\ spawned < MaxSpawns
    /\ spawned' = spawned + 1
    /\ inFlight' = inFlight \cup
                     {[id |-> spawned + 1, script |-> script, saved |-> FALSE]}
    /\ UNCHANGED <<writes, pipeVars, fileVars, fetchVars, mainVars>>

\* the daily job fires: runIncrementalUpdate
runIncrementalUpdate == spawnProcess("fetch:increment")

\* the weekly job fires: runFullUpdate
runFullUpdate == spawnProcess("fetch:full")

\* a child reaches saveData(validation.valid, 'btc_price_validated.json')
ChildSavesValidated ==
    /\ \E child \in inFlight :
          /\ ~child.saved
          /\ writes' = Append(writes, child.id)
          /\ inFlight' = (inFlight \ {child}) \cup {[child EXCEPT !.saved = TRUE]}
    /\ UNCHANGED <<spawned, pipeVars, fileVars, fetchVars, mainVars>>

\* child.on('close'): the promise of spawnProcess resolves or rejects, and
\* the job logs the outcome
ChildCloses ==
    /\ \E child \in inFlight : inFlight' = inFlight \ {child}
    /\ UNCHANGED <<spawned, writes, pipeVars, fileVars, fetchVars, mainVars>>

SchedInit ==
    /\ SchedIdle
    /\ PipelineIdle
    /\ FileIdle
    /\ FetchIdle
    /\ MainIdle

SchedNext ==
    \/ runIncrementalUpdate
    \/ runFullUpdate
    \/ ChildSavesValidated
    \/ ChildCloses

SpecScheduler == SchedInit /\ [][SchedNext]_vars

-----------------------------------------------------------------------------
(* Properties of mergeExchangeData *)

\* positions of the records dated d in the series of result k
Supplied(k, d) == {j \in 1..Len(results[k].data) : results[k].data[j].date = d}

\* the dates some exchange returned a record for
InputDates ==
    UNION {{results[k].data[j].date : j \in 1..Len(results[k].data)} :
            k \in 1..Len(results)}

Last(S) == CHOOSE j \in S : \A m \in S : m <= j

\* C2: the dates of the merged sequence are strictly ascending, so no date
\* appears twice, whatever order and overlap the exchanges' series have.
MergedDatesStrictlyAscending ==
    stage # "fetched" =>
        \A i, j \in 1..Len(mergedData) :
            i < j => mergedData[i].date < mergedData[j].date

\* a merge of series that are out of order and overlap between the exchanges
MergedUnorderedOverlapping ==
    /\ stage = "merged"
    /\ Len(mergedData) >= 2
    /\ \E i, j \in 1..Len(results[1].data) :
          i < j /\ results[1].data[i].date > results[1].data[j].date
    /\ \E d \in InputDates : Supplied(1, d) # {} /\ Supplied(2, d) # {}

\* C3: the merged sequence has a day for exactly the dates some exchange
\* supplied; a day has a slot for exactly the exchanges that supplied its date,
\* and the slot holds the last record of that date in the exchange's series.
MergedSlotsHoldLastSupplied ==
    stage # "fetched" =>
        /\ {mergedData[i].date : i \in 1..Len(mergedData)} = InputDates
        /\ \A i \in 1..Len(mergedData) :
              LET d == mergedData[i].date
              IN  /\ DOMAIN mergedData[i].exchanges =
                        {results[k].name : k \in {m \in 1..Len(results) :
                                                    Supplied(m, d) # {}}}
                  /\ \A k \in 1..Len(results) :
                        Supplied(k, d) # {} =>
                            mergedData[i].exchanges[results[k].name] =
                                results[k].data[Last(Supplied(k, d))]

\* a merge in which one exchange supplied two different records of one date
\* and the other exchange supplied that date too
MergedRepeatedDate ==
    /\ stage = "merged"
    /\ \E d \in InputDates :
          /\ \E i, j \in Supplied(1, d) :
                i < j /\ results[1].data[i] # results[1].data[j]
          /\ Supplied(2, d) # {}

-----------------------------------------------------------------------------
(* Properties of validateData *)

Days == 1..Len(mergedData)

\* positions in an anomaly list of the entries of the day at position i
EntriesOf(list, i) == {k \in 1..Len(list) : list[k].date = mergedData[i].date}

DayIn(list, i) == EntriesOf(list, i) # {}

Flagged(i) ==
    \/ DayIn(validation.anomalies.dataMissing, i)
    \/ DayIn(validation.anomalies.priceDiff, i)
    \/ DayIn(validation.anomalies.volumeSpikes, i)
    \/ DayIn(validation.anomalies.priceGaps, i)

\* C4: valid holds exactly the merged days that have no entry in any of the
\* four anomaly lists, in the order of the merged sequence.
ValidIsTheUnflaggedDays ==
    stage = "validated" =>
        LET kept == SelectSeq([i \in Days |-> i], LAMBDA i : ~Flagged(i))
        IN  validation.valid = [k \in 1..Len(kept) |-> mergedData[kept[k]]]

\* a validation that kept a day between two dropped ones, the later of them
\* dropped by the price gap rule alone
ValidKeepsSomeDropsSome ==
    /\ stage = "validated"
    /\ Len(validation.valid) >= 1
    /\ \E i, j, k \in Days :
          /\ i < j /\ j < k
          /\ Flagged(i) /\ ~Flagged(j)
          /\ DayIn(validation.anomalies.priceGaps, k)
          /\ ~DayIn(validation.anomalies.dataMissing, k)
          /\ ~DayIn(validation.anomalies.priceDiff, k)
          /\ ~DayIn(validation.anomalies.volumeSpikes, k)

Slots(i) == DOMAIN mergedData[i].exchanges
Slot(i, e) == mergedData[i].exchanges[e]

RECURSIVE SumOf(_, _)
\* sum of f[x] over the finite set S
SumOf(f, S) ==
    IF S = {} THEN 0
    ELSE LET x == CHOOSE y \in S : TRUE IN f[x] + SumOf(f, S \ {x})

\* (max close - min close) / mean close * 100 > 1 over numeric closes
DeviationAboveOnePercent(i) ==
    /\ \A e \in Slots(i) : Slot(i, e).close >= 0
    /\ \E a, b \in Slots(i) :
          (Slot(i, a).close - Slot(i, b).close) * 100 * Cardinality(Slots(i))
              > SumOf([e \in Slots(i) |-> Slot(i, e).close], Slots(i))

\* C5: a day has a PriceDeviation entry (and then one only) exactly when it
\* has at least two sources and (max close - min close) / mean close * 100 > 1;
\* never when the closes are equal, always for closes 100 and 102.
PriceDeviationIffAboveOnePercent ==
    stage = "validated" =>
        \A i \in Days :
            /\ Cardinality(EntriesOf(validation.anomalies.priceDiff, i)) =
                  IF Cardinality(Slots(i)) >= 2 /\ DeviationAboveOnePercent(i)
                  THEN 1 ELSE 0
            /\ (\A a, b \in Slots(i) : Slot(i, a).close = Slot(i, b).close)
                  => ~DayIn(validation.anomalies.priceDiff, i)
            /\ (\E a, b \in Slots(i) : Slot(i, a).close = 100 /\ Slot(i, b).close = 102)
                  => DayIn(validation.anomalies.priceDiff, i)

\* a validation with a deviation entry for a day with closes 100 and 102 and
\* none for a day on which two exchanges agree
DeviationFiredFor100And102 ==
    /\ stage = "validated"
    /\ \E i, j \in Days :
          /\ Slots(i) = ExchangeNames
          /\ Slot(i, "Binance").close = 100 /\ Slot(i, "Huobi").close = 102
          /\ DayIn(validation.anomalies.priceDiff, i)
          /\ Slots(j) = ExchangeNames
          /\ Slot(j, "Binance").close = Slot(j, "Huobi").close
          /\ ~DayIn(validation.anomalies.priceDiff, j)

Anomalies == validation.anomalies

\* the volume spike list has an entry for the day at position i and exchange e
SpikeIn(i, e) ==
    \E k \in EntriesOf(Anomalies.volumeSpikes, i) : Anomalies.volumeSpikes[k].exchange = e

\* the price gap list has an entry for the day at position i and exchange e
GapIn(i, e) ==
    \E k \in EntriesOf(Anomalies.priceGaps, i) : Anomalies.priceGaps[k].exchange = e

\* positions before i at which exchange e has a record
Prior(i, e) == {k \in Days : k < i /\ e \in Slots(k)}

\* the most recent records of e before position i, up to windowSize of them
LastRecords(i, e) ==
    {k \in Prior(i, e) : Cardinality({m \in Prior(i, e) : m > k}) < windowSize}

\* the records of e on the windowSize merged days before position i that
\* carry a volume
WindowRecords(i, e) ==
    {k \in Prior(i, e) : k >= i - windowSize /\ Slot(k, e).volume # Undefined}

VolumeAt(e) == [k \in Days |-> IF e \in Slots(k) THEN Slot(k, e).volume ELSE 0]

\* volume on day i > 3 * mean volume over the positions S
AboveThreeTimesMean(i, e, S) ==
    Slot(i, e).volume * Cardinality(S) > 3 * SumOf(VolumeAt(e), S)

\* C6 as stated: the average is over the most recent records of the source,
\* up to 30 of them, however many merged days lie between them and the day.
VolumeSpikeOverLastRecords ==
    stage = "validated" =>
        \A i \in Days : \A e \in Slots(i) :
            (/\ Prior(i, e) # {}
             /\ \A k \in Prior(i, e) \cup {i} : Slot(k, e).volume >= 0)
            => (SpikeIn(i, e) <=> AboveThreeTimesMean(i, e, LastRecords(i, e)))

\* C6, amended: the average is the mean of the source's volumes on the (at
\* most 30) merged days immediately before the day, days without a record of
\* the source staying in the window, and is 0 when the window holds none;
\* VolumeSpike fires (once) exactly when the day's volume is more than 3
\* times that average, and never when a volume involved is NaN.
VolumeSpikeOverPrecedingDays ==
    stage = "validated" =>
        \A i \in Days : \A e \in Slots(i) :
            /\ SpikeIn(i, e) <=>
                  /\ Slot(i, e).volume >= 0
                  /\ \A k \in WindowRecords(i, e) : Slot(k, e).volume >= 0
                  /\ IF WindowRecords(i, e) = {} THEN Slot(i, e).volume > 0
                     ELSE AboveThreeTimesMean(i, e, WindowRecords(i, e))
            /\ Cardinality({k \in EntriesOf(Anomalies.volumeSpikes, i) :
                              Anomalies.volumeSpikes[k].exchange = e}) <= 1

\* a validation of more than 30 days in which a volume of 1000 against an
\* average of 200 fired, and a source with one record inside and one outside
\* the window fired on the inside mean while its volume is below 3 times the
\* mean of both
SpikeAcrossWindow ==
    /\ stage = "validated"
    /\ \E i \in Days :
          /\ i > windowSize + 1
          /\ Slot(i, "Binance").volume = 1000
          /\ Cardinality(WindowRecords(i, "Binance")) = windowSize
          /\ \A k \in WindowRecords(i, "Binance") : Slot(k, "Binance").volume = 200
          /\ SpikeIn(i, "Binance")
    /\ \E i \in Days :
          /\ "Huobi" \in Slots(i)
          /\ WindowRecords(i, "Huobi") # {}
          /\ WindowRecords(i, "Huobi") # LastRecords(i, "Huobi")
          /\ SpikeIn(i, "Huobi")
          /\ ~AboveThreeTimesMean(i, "Huobi", LastRecords(i, "Huobi"))

\* C26: for a day and a source with no earlier record of the source in the
\* trailing window the volume-spike rule does not fire, so a first day that is
\* complete and agrees across sources is in valid
NoSpikeWithoutEarlierRecord ==
    stage = "validated" =>
        /\ \A i \in Days : \A e \in Slots(i) :
              {k \in Prior(i, e) : k >= i - windowSize} = {} => ~SpikeIn(i, e)
        /\ (/\ Days # {}
            /\ ~DayIn(Anomalies.dataMissing, 1)
            /\ ~DayIn(Anomalies.priceDiff, 1))
           => \E k \in 1..Len(validation.valid) :
                 validation.valid[k].date = mergedData[1].date

GapRule(prevClose, currOpen) ==
    /\ prevClose >= 0
    /\ currOpen >= 0
    /\ Abs(currOpen - prevClose) * 100 > 5 * prevClose

\* C7 as stated: the open is compared with the close of the source's most
\* recent earlier record, wherever in the merged sequence that record is.
PriceGapAgainstLastRecord ==
    stage = "validated" =>
        \A i \in Days : \A e \in Slots(i) :
            /\ Prior(i, e) # {} =>
                  (GapIn(i, e) <=>
                      GapRule(Slot(Last(Prior(i, e)), e).close, Slot(i, e).open))
            /\ Prior(i, e) = {} => ~GapIn(i, e)

\* C7, amended: the open is compared with the close of the source's record
\* on the immediately preceding day of the merged sequence; PriceGap fires
\* exactly when that record exists and |open - close| / close * 100 > 5, so a
\* source with no record on the preceding merged day never yields a PriceGap.
PriceGapAgainstPrecedingDay ==
    stage = "validated" =>
        \A i \in Days : \A e \in Slots(i) :
            GapIn(i, e) <=>
                /\ i - 1 \in Prior(i, e)
                /\ GapRule(Slot(i - 1, e).close, Slot(i, e).open)

\* a validation with a gap entry for an open 6% above the preceding close,
\* none for an open exactly 5% above it, and none for a source whose latest
\* record, two merged days back, closed far from the open
GapFiredAndSkipped ==
    /\ stage = "validated"
    /\ \E i \in Days :
          /\ "Binance" \in Slots(i)
          /\ i - 1 \in Prior(i, "Binance")
          /\ Slot(i - 1, "Binance").close = 100 /\ Slot(i, "Binance").open = 106
          /\ GapIn(i, "Binance")
    /\ \E i \in Days :
          /\ "Binance" \in Slots(i)
          /\ i - 1 \in Prior(i, "Binance")
          /\ Slot(i - 1, "Binance").close = 100 /\ Slot(i, "Binance").open = 105
          /\ ~GapIn(i, "Binance")
    /\ \E i \in Days :
          /\ "Huobi" \in Slots(i)
          /\ Prior(i, "Huobi") = {i - 2}
          /\ GapRule(Slot(i - 2, "Huobi").close, Slot(i, "Huobi").open)
          /\ ~GapIn(i, "Huobi")

\* some record of the day lacks a numeric open, high, low, close or volume
Defective(i) ==
    \E e \in Slots(i) :
        \E v \in {Slot(i, e).open, Slot(i, e).high, Slot(i, e).low,
                  Slot(i, e).close, Slot(i, e).volume} : v < 0

\* C8: a day with a record whose open, high, low, close or volume is absent
\* or not numeric has exactly one MissingData entry, however many records or
\* fields are defective, and is not in valid; a complete day has none.
OneMissingDataPerDefectiveDay ==
    stage = "validated" =>
        \A i \in Days :
            /\ Cardinality(EntriesOf(Anomalies.dataMissing, i)) =
                  IF Defective(i) THEN 1 ELSE 0
            /\ Defective(i) =>
                  \A k \in 1..Len(validation.valid) :
                      validation.valid[k].date # mergedData[i].date

\* a validation of a day on which one exchange's record is complete and the
\* other's lacks several fields, and of a day on which both are defective
DefectiveDaysValidated ==
    /\ stage = "validated"
    /\ \E i, j \in Days :
          /\ Slots(i) = ExchangeNames
          /\ CompleteRecord(Slot(i, "Binance"))
          /\ isNaN(Slot(i, "Huobi").open) /\ isNaN(Slot(i, "Huobi").volume)
          /\ DayIn(Anomalies.dataMissing, i)
          /\ Slots(j) = ExchangeNames
          /\ ~CompleteRecord(Slot(j, "Binance"))
          /\ ~CompleteRecord(Slot(j, "Huobi"))
          /\ DayIn(Anomalies.dataMissing, j)

\* the rules of a day, each decided on the merged sequence alone
ViolatesSpike(i) ==
    \E e \in Slots(i) :
        /\ Slot(i, e).volume >= 0
        /\ \A k \in WindowRecords(i, e) : Slot(k, e).volume >= 0
        /\ IF WindowRecords(i, e) = {} THEN Slot(i, e).volume > 0
           ELSE AboveThreeTimesMean(i, e, WindowRecords(i, e))

ViolatesGap(i) ==
    \E e \in Slots(i) :
        /\ i - 1 \in Prior(i, e)
        /\ GapRule(Slot(i - 1, e).close, Slot(i, e).open)

ViolatesDeviation(i) ==
    Cardinality(Slots(i)) >= 2 /\ DeviationAboveOnePercent(i)

RulesViolated(i) ==
    (IF Defective(i) THEN {"dataMissing"} ELSE {})
    \cup (IF ViolatesDeviation(i) THEN {"priceDiff"} ELSE {})
    \cup (IF ViolatesSpike(i) THEN {"volumeSpikes"} ELSE {})
    \cup (IF ViolatesGap(i) THEN {"priceGaps"} ELSE {})

ListsHolding(i) ==
    {kind \in {"dataMissing", "priceDiff", "volumeSpikes", "priceGaps"} :
        DayIn(Anomalies[kind], i)}

\* C9: every rule is evaluated on every day whatever the other rules found:
\* the anomaly lists that hold a day are exactly the rules the day violates,
\* each rule being decided on the merged sequence, flagged days included.
EveryRuleEvaluatedEveryDay ==
    stage = "validated" => \A i \in Days : ListsHolding(i) = RulesViolated(i)

\* a validation with a day in the deviation and the gap list at once, the gap
\* measured against a preceding day that was itself flagged, and a day that
\* violates three rules
SeveralRulesOnOneDay ==
    /\ stage = "validated"
    /\ \E i \in Days :
          /\ i > 1 /\ Flagged(i - 1)
          /\ {"priceDiff", "priceGaps"} \subseteq ListsHolding(i)
    /\ \E i \in Days : Cardinality(ListsHolding(i)) >= 3

-----------------------------------------------------------------------------
(* Properties of mergeWithExistingData *)

DatesOf(seq) == {seq[k].date : k \in 1..Len(seq)}

\* C10: merging the same validated days into the persisted dataset a second
\* time returns the sequence the first merge returned.
ReconcileIdempotent ==
    Len(runs) = 2 => runs[2].valid = runs[1].valid

\* two runs with the same days, the first against a file that shared a date
\* with them (holding another record for it) and had a date after a new one
ReconciledTwiceOverFile ==
    /\ Len(runs) = 2
    /\ runs[1].existing.exists
    /\ runs[2].existing = saveData(runs[1].valid)
    /\ \E i \in 1..Len(newData) : \E j \in 1..Len(runs[1].existing.data) :
          /\ newData[i].date = runs[1].existing.data[j].date
          /\ JSONDay(newData[i]) # runs[1].existing.data[j]
    /\ \E i \in 1..Len(newData) : \E j \in 1..Len(runs[1].existing.data) :
          /\ newData[i].date \notin DatesOf(runs[1].existing.data)
          /\ runs[1].existing.data[j].date \notin DatesOf(newData)
          /\ newData[i].date < runs[1].existing.data[j].date

\* C11: the value mergeWithExistingData returns holds exactly the dates of the
\* persisted dataset and of the incoming days, each once and in ascending
\* order; a date of the incoming days carries the incoming record whole, any
\* other date the persisted record unchanged.
ReconcileKeyedByDate ==
    \A r \in 1..Len(runs) :
        LET existing == runs[r].existing.data
            valid == runs[r].valid
        IN  /\ DatesOf(valid) = DatesOf(existing) \cup DatesOf(newData)
            /\ \A i, j \in 1..Len(valid) : i < j => valid[i].date < valid[j].date
            /\ \A i \in 1..Len(valid) :
                  IF valid[i].date \in DatesOf(newData)
                  THEN \E k \in 1..Len(newData) : newData[k] = valid[i]
                  ELSE \E k \in 1..Len(existing) : existing[k] = valid[i]

\* a run against a file that holds another record for an incoming date, a date
\* the incoming days lack, and lacks an incoming date
ReconciledReplacingAndKeeping ==
    /\ Len(runs) >= 1
    /\ runs[1].existing.exists
    /\ \E i \in 1..Len(newData) : \E j \in 1..Len(runs[1].existing.data) :
          /\ newData[i].date = runs[1].existing.data[j].date
          /\ DOMAIN newData[i].exchanges # DOMAIN runs[1].existing.data[j].exchanges
    /\ DatesOf(runs[1].existing.data) \ DatesOf(newData) # {}
    /\ DatesOf(newData) \ DatesOf(runs[1].existing.data) # {}

-----------------------------------------------------------------------------
(* Properties of the page loops *)

\* C1: a page loop whose failure counter reaches MAX_FAILURES stops and
\* returns what it accumulated; the call of no client ends by throwing.
CeilingReturnsNeverThrows ==
    /\ failureCount >= MAX_FAILURES => fetchPc = "returned"
    /\ fetchPc # "thrown"

\* the failure ceiling ends the call with the accumulated records returned
CeilingReturnsAccumulated ==
    /\ fetchPc = "returned"
    /\ failureCount = MAX_FAILURES
    /\ allData # <<>>

\* C19: the records a call accumulates are in chronological order with none
\* repeated, each page request starting at the current cursor
RecordsChronologicalNoRepeat ==
    /\ \A i, j \in 1..Len(allData) :
          i < j => OpenTime(allData[i]) < OpenTime(allData[j])
    /\ fetchPc = "request" => RequestedStart = currentStartTime

\* C20: switchEndpoint steps cyclically through the configured URL list: after
\* k calls the current URL is the one at position k mod N of the N-entry list,
\* and it is always a member of the list
EndpointCyclesThroughList ==
    /\ baseUrl = UrlList[(switchCalls % Len(UrlList)) + 1]
    /\ \E p \in 1..Len(UrlList) : baseUrl = UrlList[p]

\* a page loop step that counted a failure
FailureCounted == failureCount' = failureCount + 1

\* C22: the failure counter counts consecutive failures only. A call starts
\* with counter 0 and the cursor at startTime; a page that moves the cursor
\* resets the counter to zero; any other step leaves it or adds one; a
\* counted failure ends the call exactly when it is the 10th in a row, and
\* the call of no client throws below that
FailuresCountedConsecutively ==
    /\ failureCount = 0 /\ currentStartTime = startTime
    /\ [][/\ currentStartTime' # currentStartTime => failureCount' = 0
          /\ failureCount' \in {0, failureCount, failureCount + 1}
          /\ FailureCounted =>
                (fetchPc' # "request" <=> failureCount' = MAX_FAILURES)
          /\ fetchPc' = "thrown" => failureCount' = MAX_FAILURES]_vars

\* C22 witness: the OKX call ended at the ceiling after pages had arrived and
\* after more switchEndpoint calls (one per counted failure below the
\* ceiling) than the 9 of a single run of 10 failures: failures before a
\* page did not count towards the 10
CeilingAfterEarlierFailures ==
    /\ client = "OKX"
    /\ fetchPc = "thrown"
    /\ failureCount = MAX_FAILURES
    /\ allData # <<>>
    /\ \A i \in 1..Len(allData) : allData[i] # ResponseObject
    /\ endpointIndex = 0
    /\ switchCalls = 2

\* C23: a failed DNS probe rotates the endpoint and spends none of the
\* request's attempts
ProbeSpendsNoAttempt ==
    [][ProbeFails => endpointIndex' # endpointIndex /\ attempt' = attempt]_vars

\* the delays min(base * 2^n + jitter, cap) allows after the count-th
\* consecutive failure, n being the failures before it or including it
BackoffDelays(count) ==
    {backoffTime(n, jitter) : n \in {count - 1, count}, jitter \in 0..999}

\* C24: after every failed attempt below the ceiling the client has rotated
\* to the next endpoint and slept min(base * 2^failures + jitter, maxDelay)
\* before its next attempt
EveryRetryRotatesAndBacksOff ==
    (fetchPc = "request" /\ retry.failed) =>
        /\ retry.rotated
        /\ retry.slept \in BackoffDelays(retry.count)
        /\ retry.slept <= MaxDelay

\* C27: a page iteration counted as a failure leaves the accumulated records
\* and the cursor as they were; only a completed iteration appends records
FailedIterationChangesNothing ==
    [][/\ FailureCounted =>
             allData' = allData /\ currentStartTime' = currentStartTime
       /\ allData' # allData => failureCount' = 0]_vars

\* C28: the PriceFetcher loop is left only with the cursor at endTime, after
\* an empty page, or at the failure ceiling; a request that could not be
\* completed is a counted failure, never the end of the data
LoopLeftForAReason ==
    (client = "PriceFetcher" /\ fetchPc = "returned") =>
        \/ currentStartTime >= EndTime
        \/ Page(currentStartTime, PageLimit) = <<>>
        \/ failureCount >= MAX_FAILURES

\* C25: every call of the page loop terminates, whatever the upstream
\* answers
FetchTerminates == <>(fetchPc \in {"returned", "thrown"})

-----------------------------------------------------------------------------
(* Properties of formatData *)

NumericFields == {"open", "high", "low", "close", "volume", "quoteVolume"}

\* C21: no record formatData returns carries NaN in a numeric field
NoNaNInKlines ==
    \A k \in 1..Len(klines) : \A f \in NumericFields : klines[k][f] # NaN

-----------------------------------------------------------------------------
(* Properties of a whole run of main *)

PersistedDates == DatesOf(persistedBefore.validated.data)

HasPersistedDays == persistedBefore.validated.exists /\ PersistedDates # {}

\* C12: the fetch start date of a run is decided by the mode and the persisted
\* validated dataset alone: the epoch in full mode whatever is persisted; in
\* increment mode the day after the last persisted date, and the epoch when
\* no dataset (or no persisted day) exists
StartDateFromModeAndPersisted ==
    stage \notin {"start", "crashed"} =>
        /\ mode = "full" => runStartTime = Epoch
        /\ mode = "increment" /\ HasPersistedDays =>
               runStartTime = Last(PersistedDates) + 1
        /\ mode = "increment" /\ ~HasPersistedDays => runStartTime = Epoch

\* C12 witness: an increment run over several persisted days started the day
\* after the last of them, and a full run over persisted days at the epoch
StartDateAfterLastPersisted ==
    /\ stage = "fetching"
    /\ mode = "increment"
    /\ Cardinality(PersistedDates) >= 2
    /\ runStartTime = Last(PersistedDates) + 1
    /\ persistedBefore.validated.data[1].date + 1 # runStartTime

Settled == \A e \in ExchangeNames : fetched[e].state # "pending"

FailedSources == {e \in ExchangeNames : fetched[e].state = "null"}

ReturnedSources == {e \in ExchangeNames : fetched[e].state = "result"}

\* every source raised or returned an empty series
NoSourceReturnedData ==
    /\ Settled
    /\ \A e \in ExchangeNames : fetched[e].state = "null" \/ fetched[e].data = <<>>

PersistedNow ==
    [validated |-> validatedFile, anomalies |-> anomaliesFile, analysis |-> analysisFile]

\* C13: when every source's fetch fails to return any data, by raising or by
\* returning an empty series, the validated dataset, the anomalies document
\* and the analysis document are after the run what they were before it
NoDataPersistsNothing ==
    NoSourceReturnedData => PersistedNow = persistedBefore

\* C14: the process ends with a non-zero status exactly when no source
\* returned any data
NonZeroExitIffNoData ==
    stage = "done" => (exitCode # 0 <=> NoSourceReturnedData)

Merged == stage \notin {"start", "fetching", "fetched", "crashed"}

ReturnedDates == UNION {DatesOf(fetched[e].data) : e \in ReturnedSources}

\* C15: when one source's fetch raised and another returned data, the run goes
\* on with the remaining sources: they alone are merged, validated, analyzed
\* and persisted, no merged record holds the failed source, and the process
\* status is zero unless a save itself failed
RunSurvivesFailedSource ==
    (Settled /\ FailedSources # {} /\ ReturnedSources # {}
        /\ stage \notin {"fetching", "crashed"}) =>
        /\ {results[k].name : k \in 1..Len(results)} = ReturnedSources
        /\ \A k \in 1..Len(mergedData) :
               \A e \in FailedSources : e \notin DOMAIN mergedData[k].exchanges
        /\ Merged => DatesOf(mergedData) = ReturnedDates
        /\ stage = "done" /\ exitCode = 0 =>
               /\ validation.stats.totalDays = Len(mergedData)
               /\ PersistedNow = [validated |-> saveData(validation.valid),
                                  anomalies |-> saveDocument(validation.anomalies),
                                  analysis |-> saveDocument(analysis)]
        /\ exitCode # 0 =>
               stage = "done" /\ analysisFile = persistedBefore.analysis

\* C15 witness: Binance raised, Huobi returned days, and the run ended with
\* status zero and a validated dataset of Huobi records
SurvivedWithoutBinance ==
    /\ stage = "done"
    /\ exitCode = 0
    /\ fetched["Binance"].state = "null"
    /\ fetched["Huobi"].state = "result"
    /\ Len(mergedData) = FetchSpan
    /\ validatedFile.exists
    /\ validatedFile.data # <<>>
    /\ validatedFile # persistedBefore.validated

\* C16: a crash at any point of a run leaves the validated, the anomalies and
\* the analysis document with the contents they had before the run started
CrashLeavesPersistedUntouched ==
    stage = "crashed" => PersistedNow = persistedBefore

\* C17: the statistics of a run are those of the validator's valid sequence:
\* a day excluded from valid contributes nothing to the analysis
AnalysisOverValidOnly ==
    stage = "analyzed" => analysis = analyzeData(validation.valid)

CloseOf(e, i) == mergedData[i].exchanges[e].close

\* the source's close on day i is above (below) its close on the day before
UpAt(e, i) ==
    /\ i > 1
    /\ e \in DOMAIN mergedData[i].exchanges
    /\ e \in DOMAIN mergedData[i - 1].exchanges
    /\ Greater(CloseOf(e, i), CloseOf(e, i - 1))

DownAt(e, i) ==
    /\ i > 1
    /\ e \in DOMAIN mergedData[i].exchanges
    /\ e \in DOMAIN mergedData[i - 1].exchanges
    /\ Greater(CloseOf(e, i - 1), CloseOf(e, i))

\* the length of the longest run of consecutive days satisfying At
LongestRun(At(_)) ==
    Last({n \in 0..Len(mergedData) :
            \E i \in 1..(Len(mergedData) - n + 1) : \A j \in i..(i + n - 1) : At(j)})

\* C18: for every source maxUpStreak is the length of the longest run of days
\* closing above the preceding day and maxDownStreak that of days closing
\* below, so a source with an up (down) day has a streak of at least 1; the
\* days are those of the sequence analyzeData was given
StreaksAreLongestRuns ==
    stage = "analyzed" =>
        \A e \in DOMAIN analysis.trends.upDays :
            /\ analysis.trends.maxUpStreak[e] = LongestRun(LAMBDA i : UpAt(e, i))
            /\ analysis.trends.maxDownStreak[e] = LongestRun(LAMBDA i : DownAt(e, i))
            /\ analysis.trends.upDays[e] >= 1 => analysis.trends.maxUpStreak[e] >= 1
            /\ analysis.trends.downDays[e] >= 1 => analysis.trends.maxDownStreak[e] >= 1

\* every record the sources returned is the plain day: complete, the same on
\* both sources, with the volume and the prices of every other day
CleanUpstream ==
    \A e \in ReturnedSources : \A k \in 1..Len(fetched[e].data) :
        fetched[e].data[k] = KlineOf(e, fetched[e].data[k].date, 1)

\* C29: in increment mode over clean upstream data no day the sources
\* reported is skipped for good: after the run the day is in the persisted
\* validated dataset, or the next run's start date has not moved past it
NoCleanDaySkipped ==
    (stage = "done" /\ exitCode = 0 /\ mode = "increment" /\ CleanUpstream) =>
        \A d \in ReturnedDates :
            \/ d \in DatesOf(validatedFile.data)
            \/ d >= StartTimeOf("increment", validatedFile)

-----------------------------------------------------------------------------
(* Properties of the scheduler *)

\* C30: the scheduler never has two pipeline runs in flight at once, and the
\* validated dataset is never written by a run that started before the run
\* whose result it overwrites
NeverTwoRunsInFlight ==
    /\ Cardinality(inFlight) <= 1
    /\ \A i, j \in 1..Len(writes) : i < j => writes[i] < writes[j]

====
